---- MODULE Spec2Model ----
(***************************************************************************)
(* Model of the OS-native arena allocator of src/main.c (POSIX backend):   *)
(* arena_init / arena_alloc / arena_reset / arena_destroy over a paged     *)
(* address space whose protections are changed by os_reserve, os_commit,   *)
(* os_guard and os_release.  Sizes and addresses are machine words of      *)
(* WordBits bits; the page size is 2^PageShift.                            *)
(***************************************************************************)
EXTENDS Integers, Sequences, FiniteSets, TLC

\* ---- bounds of the model ----
WordBits == 21
PageShift == 12
MaxAllocs == 2

\* ---- program constants ----
ARENA_GUARD_PAGES == 1
ARENA_ALIGNMENT == 8
NULL == 0

Pow2(n) == 2 ^ n

\* size_t / pointer arithmetic is modulo 2^WordBits
WordMod == Pow2(WordBits)
SIZE_MAX == WordMod - 1
Wrap(x) == x % WordMod

RECURSIVE BitAnd(_, _, _)
BitAnd(x, y, n) ==
    IF n = 0 THEN 0
    ELSE (x % 2) * (y % 2) + 2 * BitAnd(x \div 2, y \div 2, n - 1)

BitNot(x) == SIZE_MAX - x

\* (x + (a - 1)) & ~(a - 1), on size_t
align_up(x, a) == BitAnd(Wrap(x + Wrap(a - 1)), BitNot(Wrap(a - 1)), WordBits)

os_page_size == Pow2(PageShift)

NPages == WordMod \div os_page_size
Pages == 0 .. (NPages - 1)

\* ---- the process's address space, page by page ----
\* pages (possibly beyond the address space) touched by [addr, addr+size)
RangePages(addr, size) ==
    IF size > 0
    THEN (addr \div os_page_size) .. ((addr + size - 1) \div os_page_size)
    ELSE {}

IsMapped(pr, p) == p \in Pages /\ pr[p] # "unmapped"

\* the first page from p up to hi that is not mapped, hi + 1 if there is none
RECURSIVE FirstHole(_, _, _)
FirstHole(pr, p, hi) ==
    IF p > hi \/ ~IsMapped(pr, p) THEN p ELSE FirstHole(pr, p + 1, hi)

\* mprotect walks the mappings from addr and stops at the first hole
MappedPrefix(pr, addr, size) ==
    IF size > 0
    THEN (addr \div os_page_size) ..
         (FirstHole(pr, addr \div os_page_size,
                    (addr + size - 1) \div os_page_size) - 1)
    ELSE {}

SetProt(pr, ps, access) == [p \in Pages |-> IF p \in ps THEN access ELSE pr[p]]

\* addresses the host may hand out for a new mapping
ReserveAddrs == { os_page_size, 2 * os_page_size }

\* mmap(NULL, size, PROT_NONE, ...): NULL on failure, else the new mapping's address
os_reserve(pr, size) ==
    {NULL} \cup
    { mem \in ReserveAddrs :
        /\ size > 0
        /\ mem + size <= WordMod - os_page_size
        /\ \A p \in RangePages(mem, size) : pr[p] = "unmapped" }

\* mprotect(addr, size, PROT_READ | PROT_WRITE) == 0, with the protections it
\* leaves: a call of zero bytes changes nothing and succeeds; a call on mapped
\* pages succeeds, or fails when the host has no backing to give; a call that
\* meets an unmapped page fails
os_commit(pr, addr, size) ==
    IF size = 0
    THEN { [ok |-> TRUE, prot |-> pr] }
    ELSE IF MappedPrefix(pr, addr, size) = RangePages(addr, size)
    THEN { [ok |-> TRUE, prot |-> SetProt(pr, RangePages(addr, size), "rw")],
           [ok |-> FALSE, prot |-> pr] }
    ELSE { [ok |-> FALSE, prot |-> SetProt(pr, MappedPrefix(pr, addr, size), "rw")] }

\* mprotect(addr, size, PROT_NONE), result ignored
os_guard(pr, addr, size) == SetProt(pr, MappedPrefix(pr, addr, size), "none")

\* munmap(addr, size)
os_release(pr, addr, size) ==
    SetProt(pr, RangePages(addr, size) \cap Pages, "unmapped")

\* ---- state ----
VARIABLES
    state,          \* "Uninitialized", "Active", "Destroyed", "Crashed"
    base, cursor, commit, limit, reserve_size, commit_step,   \* struct Arena
    prot,           \* access of every page of the address space
    last,           \* the last call: its arguments, result and provider calls
    allocs,         \* the first MaxAllocs successful arena_alloc calls since
                    \* arena_init / arena_reset
    clean,          \* no arena_alloc call failed since arena_init / arena_reset
    prev,           \* allocs of the window closed by the last arena_reset, kept
                    \* while the calls since then re-issue its sizes in order
    replay,         \* how many sizes of prev were re-issued in order, -1 if none
    oos             \* the smallest size arena_alloc refused for lack of space
                    \* since arena_init / arena_reset, WordMod if it refused none

arena == <<base, cursor, commit, limit, reserve_size, commit_step>>
hist == <<allocs, clean, prev, replay, oos>>
vars == <<state, base, cursor, commit, limit, reserve_size, commit_step,
          prot, last, allocs, clean, prev, replay, oos>>

Call(fn, addr, size, ok) == [fn |-> fn, addr |-> addr, size |-> size, ok |-> ok]

\* the provider's commit was called and answered failure
CommitFailed(calls) ==
    \E i \in DOMAIN calls : calls[i].fn = "commit" /\ ~calls[i].ok

\* op(a1, a2) entered with the cursor at `at`, made `calls`, returned ok / ptr;
\* retry: the call before it was an arena_alloc of the same size whose commit
\* failed, and `want` is where the cursor stood when that call was entered
Last(op, a1, a2, ok, ptr, at, calls, retry, want) ==
    [op |-> op, size |-> a1, step |-> a2, ok |-> ok, ptr |-> ptr, at |-> at,
     calls |-> calls, retry |-> retry, want |-> want]

\* ---- inputs ----
ReserveRequests ==
    { 0, 1, 2 * os_page_size, 3 * os_page_size, WordMod - os_page_size, SIZE_MAX }
CommitStepRequests == { 0, 1, os_page_size + 1, 3 * os_page_size }
AllocSizes == { 0, 4, os_page_size, WordMod - ARENA_ALIGNMENT, SIZE_MAX }
ReserveInRange == { 0, 1, 2 * os_page_size, 3 * os_page_size }
SizesInRange == { 0, 4, os_page_size }

Init ==
    /\ state = "Uninitialized"
    /\ base = 0 /\ cursor = 0 /\ commit = 0 /\ limit = 0
    /\ reserve_size = 0 /\ commit_step = 0
    /\ prot = [p \in Pages |-> "unmapped"]
    /\ last = Last("none", 0, 0, TRUE, NULL, NULL, <<>>, FALSE, NULL)
    /\ allocs = <<>> /\ clean = TRUE /\ prev = <<>> /\ replay = -1
    /\ oos = WordMod

\* a pointer addition that overflows is undefined: the build wraps or traps
Trap(a1, a2) ==
    /\ state' = "Crashed"
    /\ last' = Last("trap", a1, a2, FALSE, NULL, NULL, <<>>, FALSE, NULL)
    /\ UNCHANGED <<arena, prot, hist>>

\* ---- Arena API ----
\* a failure noticed only after the sizes were recorded
OnReserveFail_Recorded(requested_reserve, requested_commit_step, total) ==
    /\ last' = Last("init", requested_reserve, requested_commit_step,
                    FALSE, NULL, NULL,
                    <<Call("reserve", NULL, total, FALSE)>>, FALSE, NULL)
    /\ reserve_size' = align_up(requested_reserve, os_page_size)
    /\ commit_step' = align_up(requested_commit_step, os_page_size)
    /\ UNCHANGED <<state, base, cursor, commit, limit, prot, hist>>

\* if (!mem) return 0;
OnReserveFail(requested_reserve, requested_commit_step, total) ==
    /\ last' = Last("init", requested_reserve, requested_commit_step,
                    FALSE, NULL, NULL,
                    <<Call("reserve", NULL, total, FALSE)>>, FALSE, NULL)
    /\ UNCHANGED <<state, arena, prot, hist>>

arena_init(requested_reserve, requested_commit_step) ==
    /\ state = "Uninitialized"
    /\ LET page == os_page_size
           guard == IF ARENA_GUARD_PAGES # 0 THEN page ELSE 0
           rs == align_up(requested_reserve, page)
           cs == align_up(requested_commit_step, page)
           total == Wrap(rs + guard * 2)
       IN \E mem \in os_reserve(prot, total) :
            IF mem = NULL
            THEN OnReserveFail(requested_reserve, requested_commit_step, total)
            ELSE \E wraps \in (IF mem + guard + rs >= WordMod
                               THEN BOOLEAN ELSE {TRUE}) :
                 IF ~wraps
                 THEN Trap(requested_reserve, requested_commit_step)
                 ELSE LET mapped == SetProt(prot, RangePages(mem, total), "none")
                          tail == Wrap(mem + guard + rs)
                          g1 == IF ARENA_GUARD_PAGES # 0
                                THEN os_guard(mapped, mem, guard) ELSE mapped
                          g2 == IF ARENA_GUARD_PAGES # 0
                                THEN os_guard(g1, tail, guard) ELSE g1
                      IN /\ state' = "Active"
                         /\ base' = mem + guard
                         /\ cursor' = mem + guard
                         /\ commit' = mem + guard
                         /\ limit' = Wrap(mem + guard + rs)
                         /\ reserve_size' = rs
                         /\ commit_step' = cs
                         /\ prot' = g2
                         /\ last' = Last("init", requested_reserve,
                                         requested_commit_step, TRUE, NULL,
                                         mem + guard,
                                         <<Call("reserve", mem, total, TRUE),
                                           Call("guard", mem, guard, TRUE),
                                           Call("guard", tail, guard, TRUE)>>,
                                         FALSE, NULL)
                         /\ allocs' = <<>> /\ clean' = TRUE
                         /\ prev' = <<>> /\ replay' = -1
                         /\ oos' = WordMod

arena_destroy ==
    /\ state = "Active"
    /\ LET guard == IF ARENA_GUARD_PAGES # 0 THEN os_page_size ELSE 0
           addr == Wrap(base - guard)
           size == Wrap(reserve_size + guard * 2)
       IN /\ prot' = os_release(prot, addr, size)
          /\ last' = Last("destroy", 0, 0, TRUE, NULL, cursor,
                          <<Call("release", addr, size, TRUE)>>, FALSE, NULL)
    /\ state' = "Destroyed"
    /\ allocs' = <<>> /\ clean' = TRUE /\ prev' = <<>> /\ replay' = -1
    /\ oos' = WordMod
    /\ UNCHANGED arena

\* what arena_reset does to the ghost history
ResetHistory ==
    /\ last' = Last("reset", 0, 0, TRUE, NULL, cursor, <<>>, FALSE, NULL)
    /\ prev' = IF clean THEN allocs ELSE <<>>
    /\ replay' = IF clean THEN 0 ELSE -1
    /\ allocs' = <<>>
    /\ clean' = TRUE
    /\ oos' = WordMod

\* a reset that also gives the committed range back
arena_reset_decommit ==
    /\ state = "Active"
    /\ cursor' = base
    /\ commit' = base
    /\ ResetHistory
    /\ UNCHANGED <<state, base, limit, reserve_size, commit_step, prot>>

\* a reset that rewinds to the wrong field
arena_reset_to_commit ==
    /\ state = "Active"
    /\ cursor' = commit
    /\ ResetHistory
    /\ UNCHANGED <<state, base, commit, limit, reserve_size, commit_step, prot>>

arena_reset ==
    /\ state = "Active"
    /\ cursor' = base
    /\ ResetHistory
    /\ UNCHANGED <<state, base, commit, limit, reserve_size, commit_step, prot>>

\* the position in prev that a call of this size re-issues, -1 if it does not
Replayed(size) ==
    IF replay >= 0 /\ replay < Len(prev) /\ prev[replay + 1].size = size
    THEN replay + 1 ELSE -1

\* this call re-issues the size of the call before it, whose commit failed
IsRetry(size) ==
    last.op = "alloc" /\ ~last.ok /\ CommitFailed(last.calls) /\ last.size = size

\* return NULL
AllocFail(size, calls, pr) ==
    /\ last' = Last("alloc", size, 0, FALSE, NULL, cursor, calls, IsRetry(size),
                    IF IsRetry(size) THEN last.at ELSE NULL)
    /\ prot' = pr
    /\ clean' = FALSE
    /\ replay' = Replayed(size)
    /\ prev' = IF Replayed(size) = -1 THEN <<>> ELSE prev
    /\ oos' = IF calls = <<>> /\ size < oos THEN size ELSE oos
    /\ UNCHANGED <<state, arena, allocs>>

\* result = a->cursor; a->cursor = next; return result
AllocOk(size, next, newcommit, calls, pr) ==
    /\ cursor' = next
    /\ commit' = newcommit
    /\ last' = Last("alloc", size, 0, TRUE, cursor, cursor, calls, IsRetry(size),
                    IF IsRetry(size) THEN last.at ELSE NULL)
    /\ prot' = pr
    /\ allocs' = IF Len(allocs) < MaxAllocs
                 THEN Append(allocs, [size |-> size, ptr |-> cursor])
                 ELSE allocs
    /\ replay' = Replayed(size)
    /\ prev' = IF Replayed(size) = -1 THEN <<>> ELSE prev
    /\ UNCHANGED <<state, base, limit, reserve_size, commit_step, clean, oos>>

\* a commit failure noticed only after the commit boundary was moved
OnCommitFail_Advanced(size, need, pr) ==
    /\ last' = Last("alloc", size, 0, FALSE, NULL, cursor,
                    <<Call("commit", commit, need, FALSE)>>, IsRetry(size),
                    IF IsRetry(size) THEN last.at ELSE NULL)
    /\ commit' = Wrap(commit + need)
    /\ prot' = pr
    /\ clean' = FALSE
    /\ replay' = Replayed(size)
    /\ prev' = IF Replayed(size) = -1 THEN <<>> ELSE prev
    /\ UNCHANGED <<state, base, cursor, limit, reserve_size, commit_step,
                   allocs, oos>>

\* if (!os_commit(a->commit, need)) return NULL;
OnCommitFail(size, need, pr) ==
    AllocFail(size, <<Call("commit", commit, need, FALSE)>>, pr)

\* a size taken as it comes
AlignedSize_raw(size) == size

\* size = align_up(size, ARENA_ALIGNMENT)
AlignedSize(size) == align_up(size, ARENA_ALIGNMENT)

\* a bound check that refuses the last byte
OutOfSpace_ge(next) == next >= limit

\* if (next > a->limit)
OutOfSpace(next) == next > limit

\* a commit check that fires on the boundary
NeedsCommit_ge(next) == next >= commit

\* if (next > a->commit)
NeedsCommit(next) == next > commit

\* a growth rounded to the page, not to the commit step
Need_page(next) == align_up(Wrap(next - commit), os_page_size)

\* need = align_up((size_t)(next - a->commit), a->commit_step)
Need(next) == align_up(Wrap(next - commit), commit_step)

arena_alloc(size) ==
    /\ state = "Active"
    /\ LET sz == AlignedSize(size)
       IN \E wraps \in (IF cursor + sz >= WordMod THEN BOOLEAN ELSE {TRUE}) :
          IF ~wraps
          THEN Trap(size, 0)
          ELSE LET next == Wrap(cursor + sz) IN
               IF OutOfSpace(next)
               THEN AllocFail(size, <<>>, prot)
               ELSE IF NeedsCommit(next)
               THEN LET need == Need(next) IN
                    \E r \in os_commit(prot, commit, need) :
                       IF ~r.ok
                       THEN OnCommitFail(size, need, r.prot)
                       ELSE AllocOk(size, next, Wrap(commit + need),
                                    <<Call("commit", commit, need, TRUE)>>, r.prot)
               ELSE AllocOk(size, next, commit, <<>>, prot)

Next ==
    \/ \E r \in ReserveRequests, c \in CommitStepRequests : arena_init(r, c)
    \/ \E s \in AllocSizes : arena_alloc(s) /\ (last'.ok => Len(allocs) < MaxAllocs)
    \/ arena_reset
    \/ arena_destroy

Spec == Init /\ [][Next]_vars

\* the same program called with requests none of whose sums exceeds a word
NextInRange ==
    \/ \E r \in ReserveInRange, c \in CommitStepRequests : arena_init(r, c)
    \/ \E s \in SizesInRange : arena_alloc(s) /\ (last'.ok => Len(allocs) < MaxAllocs)
    \/ arena_reset
    \/ arena_destroy

SpecInRange == Init /\ [][NextInRange]_vars

\* the same program with a reservation that fits a word and a commit step of one
\* page, called with every size
NextWholeSteps ==
    \/ \E r \in ReserveInRange : arena_init(r, 1)
    \/ \E s \in AllocSizes : arena_alloc(s) /\ (last'.ok => Len(allocs) < MaxAllocs)
    \/ arena_reset
    \/ arena_destroy

SpecWholeSteps == Init /\ [][NextWholeSteps]_vars

\* the call pattern of a harness: one arena_init, then arena_alloc in a loop,
\* with the sizes of the two documented scenarios and a host that has backing
\* for every commit
KiB(n) == n * 1024
ScenarioReserves == { KiB(64), KiB(1024) }
ScenarioStep == KiB(64)
ScenarioSizes == { 64 }

NextScenario ==
    \/ \E r \in ScenarioReserves : arena_init(r, ScenarioStep)
    \/ arena_alloc(4) /\ last.op = "init" /\ ~CommitFailed(last'.calls)
    \/ \E s \in ScenarioSizes : arena_alloc(s) /\ ~CommitFailed(last'.calls)

SpecScenario == Init /\ [][NextScenario]_vars

TypeOK ==
    /\ state \in {"Uninitialized", "Active", "Destroyed", "Crashed"}
    /\ \A f \in {base, cursor, commit, limit, reserve_size, commit_step} :
          f \in 0 .. SIZE_MAX
    /\ \A p \in Pages : prot[p] \in {"unmapped", "none", "rw"}

\* ---- claims ----
PageOf(addr) == addr \div os_page_size

\* C1: in every Active state, whatever the arguments of arena_init and the sizes
\* given to arena_alloc, base <= cursor <= commit <= limit.
C1_Ordering ==
    state = "Active" => (base <= cursor /\ cursor <= commit /\ commit <= limit)

\* C2: in every Active state the page before base and the page starting at limit
\* are inaccessible, no page outside [base, limit) is readable or writable, and
\* every commit call of arena_alloc covers bytes of [base, limit) only.
C2_GuardsIntact ==
    state = "Active" =>
        /\ prot[PageOf(base - 1)] = "none"
        /\ prot[PageOf(limit)] = "none"
        /\ \A p \in Pages :
              prot[p] = "rw" =>
                  (base <= p * os_page_size /\ (p + 1) * os_page_size <= limit)
        /\ \A i \in DOMAIN last.calls :
              (last.calls[i].fn = "commit" /\ last.calls[i].ok) =>
                  /\ base <= last.calls[i].addr
                  /\ last.calls[i].addr + last.calls[i].size <= limit

\* C3: an arena_alloc(size) entered with cursor + align_up(size, 8) > limit
\* returns NULL, calls no commit and changes no field of the Arena.
C3_OutOfSpaceFails ==
    [][ ( /\ state = "Active"
          /\ last'.op = "alloc"
          /\ cursor + align_up(last'.size, ARENA_ALIGNMENT) > limit )
        => ( /\ ~last'.ok
             /\ last'.ptr = NULL
             /\ last'.calls = <<>>
             /\ UNCHANGED arena ) ]_vars

RECURSIVE SumAligned(_, _)
SumAligned(seq, n) ==
    IF n = 0 THEN 0
    ELSE SumAligned(seq, n - 1) + align_up(seq[n].size, ARENA_ALIGNMENT)

\* C4: an arena_alloc whose commit call fails returns NULL and changes no field of
\* the Arena, and when the next call re-issues its size and its commit succeeds,
\* that call returns the address at which the failed call found the cursor.
C4_CommitFailureLeavesArena ==
    [][ /\ (last'.op = "alloc" /\ CommitFailed(last'.calls))
            => (~last'.ok /\ last'.ptr = NULL /\ UNCHANGED arena)
        /\ (last'.op = "alloc" /\ last'.retry /\ last'.ok /\ last'.calls # <<>>)
            => last'.ptr = last'.want ]_vars

\* a retry of a commit-failed arena_alloc has succeeded, its commit granted
C4_Witness ==
    /\ last.op = "alloc" /\ last.retry /\ last.ok
    /\ last.calls # <<>> /\ last.ptr # NULL

\* C5: with s_1..s_k the sizes of the successful arena_alloc calls since the last
\* arena_init / arena_reset, cursor - base is the sum of align_up(s_i, 8) and the
\* i-th returned pointer is base plus the sum of align_up(s_j, 8) over j < i.
C5_CursorIsSum ==
    state = "Active" =>
        /\ cursor - base = SumAligned(allocs, Len(allocs))
        /\ \A i \in DOMAIN allocs : allocs[i].ptr = base + SumAligned(allocs, i - 1)

Disjoint(p, s, q, t) == s = 0 \/ t = 0 \/ p + s <= q \/ q + t <= p

\* C6: the byte ranges [p, p+s) of any two successful arena_alloc calls since the
\* last arena_init / arena_reset are disjoint.
C6_NoOverlap ==
    state = "Active" =>
        \A i, j \in DOMAIN allocs :
            i < j => Disjoint(allocs[i].ptr, allocs[i].size,
                              allocs[j].ptr, allocs[j].size)

\* C7: right after a successful arena_init, cursor = commit = base and
\* limit = base + reserve_size, no page is committed and no commit call was made.
C7_InitCommitsNothing ==
    (last.op = "init" /\ last.ok) =>
        /\ cursor = base /\ commit = base
        /\ limit = base + reserve_size
        /\ \A p \in Pages : prot[p] # "rw"
        /\ \A i \in DOMAIN last.calls : last.calls[i].fn # "commit"

\* C8: arena_reset sets cursor to base, leaves base, commit, limit, reserve_size
\* and commit_step as they were, and makes no provider call: the pages keep their
\* access and the Arena stays Active.
C8_ResetFrame ==
    [][ last'.op = "reset"
        => ( /\ cursor' = base
             /\ UNCHANGED <<base, commit, limit, reserve_size, commit_step>>
             /\ last'.calls = <<>>
             /\ prot' = prot
             /\ state' = state ) ]_vars

\* a reset has rewound a cursor that had advanced into committed memory
C8_Witness ==
    /\ last.op = "reset" /\ last.at > base
    /\ cursor = base /\ commit > base

C10_CommitWholeSteps ==
    state = "Active" =>
        IF commit_step = 0
        THEN commit = base
        ELSE commit >= base /\ (commit - base) % commit_step = 0

\* C11: in every Active state cursor - base is a multiple of 8, and every pointer
\* arena_alloc has returned lies a multiple of 8 bytes from base.
C11_CursorAligned ==
    state = "Active" =>
        /\ (cursor - base) % ARENA_ALIGNMENT = 0
        /\ \A i \in DOMAIN allocs : (allocs[i].ptr - base) % ARENA_ALIGNMENT = 0
        /\ (last.op = "alloc" /\ last.ok) =>
               (last.ptr - base) % ARENA_ALIGNMENT = 0

\* a request of 4 bytes was followed by a second allocation, 8 bytes further
C11_Witness ==
    /\ state = "Active" /\ Len(allocs) = 2
    /\ allocs[1].size = 4 /\ allocs[2].ptr = base + ARENA_ALIGNMENT
    /\ last.op = "alloc" /\ last.ok /\ last.ptr = allocs[2].ptr

\* C12: once arena_alloc(s) has failed for lack of space, every arena_alloc(s')
\* with s' >= s before the next arena_reset fails for lack of space too.
C12_OutOfSpaceSticks ==
    [][(last'.op = "alloc" /\ state = "Active" /\ oos <= last'.size) =>
          (~last'.ok /\ last'.calls = <<>>)]_vars

\* C13: when the reserve call of arena_init fails, arena_init returns failure,
\* makes no further provider call and modifies no field of the Arena.
C13_ReserveFailureLeavesArena ==
    [][(last'.op = "init" /\ last'.calls # <<>> /\ ~last'.calls[1].ok) =>
          /\ ~last'.ok
          /\ last'.calls = <<Call("reserve", NULL, last'.calls[1].size, FALSE)>>
          /\ UNCHANGED <<state, arena, prot>>]_vars

\* arena_init of a non-empty request came back with failure
C13_Witness ==
    /\ last.op = "init" /\ ~last.ok /\ last.size > 0 /\ last.step > 0
    /\ Len(last.calls) = 1 /\ last.calls[1].fn = "reserve"
    /\ state = "Uninitialized"

C15_ZeroSizeAlloc ==
    [][(last'.op = "alloc" /\ last'.size = 0 /\ state = "Active") =>
          /\ last'.ok /\ last'.ptr = cursor
          /\ last'.calls = <<>>
          /\ UNCHANGED <<cursor, commit>>]_vars

\* C18: arena_alloc makes a commit call only when cursor + align_up(size, 8)
\* exceeds the current commit, and at most one per call; so after arena_reset
\* there is no commit call until the cursor would pass the commit boundary
\* reached before the reset.
C18_CommitOnlyOnGrowth ==
    [][(last'.op = "alloc" /\ state = "Active") =>
          /\ Len(last'.calls) <= 1
          /\ \A i \in DOMAIN last'.calls :
                /\ last'.calls[i].fn = "commit"
                /\ last'.calls[i].addr = commit
                /\ cursor + AlignedSize(last'.size) > commit
          /\ (last'.calls = <<>> /\ last'.ok) => commit' = commit]_vars

\* after arena_reset a non-empty allocation was served from memory committed
\* before the reset, without a commit call
C18_Witness ==
    /\ state = "Active" /\ replay >= 1
    /\ last.op = "alloc" /\ last.ok /\ last.size > 0 /\ last.calls = <<>>
    /\ prev[1].ptr = base /\ cursor <= commit

\* the least multiple of the page size that is >= x, over the integers
LeastPageMultiple(x) ==
    ((x + os_page_size - 1) \div os_page_size) * os_page_size

\* C19: for every requested reserve size and commit step, arena_init records
\* as reserve_size and commit_step the least multiples of the page size that
\* are >= the requested values, and reserves exactly
\* reserve_size + 2 * page size bytes.
C19_InitRounding ==
    (last.op = "init" /\ last.ok) =>
        /\ reserve_size = LeastPageMultiple(last.size)
        /\ commit_step = LeastPageMultiple(last.step)
        /\ last.calls[1] = Call("reserve", base - os_page_size,
                                reserve_size + 2 * os_page_size, TRUE)

\* C20: with sizes and addresses held in machine words, every successful
\* arena_alloc(size) returns p with base <= p and p + size <= commit <= limit.
C20_BlockInsideCommitted ==
    (state = "Active" /\ last.op = "alloc" /\ last.ok) =>
        /\ base <= last.ptr
        /\ last.ptr + last.size <= commit
        /\ commit <= limit

\* C16: after arena_init(1 MiB, 64 KiB), with every commit succeeding, 16384
\* consecutive arena_alloc(64) calls all succeed (the k-th returns
\* base + 64 * (k - 1)), and the 16385th fails for lack of space and leaves
\* the Arena unchanged.
C16_BenchFillsReserve ==
    [][(/\ last'.op = "alloc" /\ last'.size = 64 /\ state = "Active"
        /\ reserve_size = KiB(1024) /\ commit_step = KiB(64)
        /\ (cursor - base) % 64 = 0
        /\ ~CommitFailed(last'.calls)) =>
          IF (cursor - base) \div 64 < 16384
          THEN /\ last'.ok /\ last'.ptr = cursor
               /\ cursor' = cursor + 64
          ELSE /\ (cursor - base) \div 64 = 16384
               /\ ~last'.ok /\ last'.calls = <<>>
               /\ UNCHANGED <<state, arena, prot>>]_vars

\* the 16385th call has just failed, after 16384 blocks of 64 bytes
C16_Witness ==
    /\ state = "Active" /\ last.op = "alloc" /\ last.size = 64 /\ ~last.ok
    /\ last.step = 0 /\ last.calls = <<>>
    /\ reserve_size = KiB(1024) /\ cursor = base + 16384 * 64 /\ cursor = limit

\* C17: after arena_init(64 KiB, 64 KiB), a first arena_alloc(4) whose commit
\* succeeds returns base and leaves cursor = base + 8 and commit = base + 64 KiB,
\* having made exactly one commit call, of one commit step.
C17_FirstAlloc ==
    [][(/\ last'.op = "alloc" /\ last'.size = 4 /\ state = "Active"
        /\ last.op = "init" /\ last.size = KiB(64) /\ last.step = KiB(64)
        /\ ~CommitFailed(last'.calls)) =>
          /\ last'.ok /\ last'.ptr = base
          /\ cursor' = base + 8
          /\ commit' = base + KiB(64)
          /\ last'.calls = <<Call("commit", base, commit_step, TRUE)>>
          /\ commit_step = KiB(64)]_vars

\* the first arena_alloc(4) of the 64 KiB arena has returned
C17_Witness ==
    /\ state = "Active" /\ last.op = "alloc" /\ last.size = 4 /\ last.ok
    /\ reserve_size = KiB(64) /\ last.ptr = base /\ cursor = base + 8
    /\ Len(last.calls) = 1

====
